---- MODULE Spec2Model ----
(***************************************************************************)
(* A model of ball_final.py: the class ball (trajectory generation) and    *)
(* the class an_animation (padding of several balls to a common length     *)
(* and frame-by-frame playback).                                           *)
(*                                                                         *)
(* Floating-point numbers are modelled as exact rationals <<num, den>>     *)
(* in lowest terms with den > 0, so equal values are equal tuples.         *)
(* Rounding is not modelled.  The angles are drawn from a table of angles  *)
(* whose sine and cosine are rational.                                     *)
(***************************************************************************)
EXTENDS Integers, Sequences, FiniteSets, TLC

(***************************************************************************)
(* Exact rational arithmetic                                               *)
(***************************************************************************)
Abs(n) == IF n < 0 THEN -n ELSE n

RECURSIVE GCD(_, _)
GCD(a, b) == IF b = 0 THEN a ELSE GCD(b, a % b)

Rat(n, d) ==
    LET s == IF d < 0 THEN -1 ELSE 1
        c == GCD(Abs(n), Abs(d))
    IN  <<(s * n) \div c, (s * d) \div c>>

Q(n) == <<n, 1>>

\* Sums over the least common denominator and products cancelled
\* crosswise, which keeps the intermediate integers small.
RAdd(a, b) ==
    LET c == GCD(a[2], b[2])
    IN  Rat(a[1] * (b[2] \div c) + b[1] * (a[2] \div c), (a[2] \div c) * b[2])
RSub(a, b) == RAdd(a, <<-b[1], b[2]>>)
RMul(a, b) ==
    LET c == GCD(Abs(a[1]), b[2])
        d == GCD(Abs(b[1]), a[2])
    IN  Rat((a[1] \div c) * (b[1] \div d), (a[2] \div d) * (b[2] \div c))
RDiv(a, b) == RMul(a, IF b[1] < 0 THEN <<-b[2], -b[1]>> ELSE <<b[2], b[1]>>)
RNeg(a)    == <<-a[1], a[2]>>
RLess(a, b) == a[1] * b[2] < b[1] * a[2]
RCeil(a)   == -((-a[1]) \div a[2])

RECURSIVE RPow(_, _)
RPow(a, k) == IF k = 0 THEN Q(1) ELSE RMul(a, RPow(a, k - 1))

Max(a, b) == IF a < b THEN b ELSE a

(***************************************************************************)
(* Bounds and input sets                                                   *)
(***************************************************************************)
MaxBounces == 3     \* largest n_rebounds passed to ball(...)
GenBalls   == 1     \* ball objects constructed in a run of SpecGen
MaxBalls   == 2     \* ball objects constructed in a run of Spec
MaxAnims   == 2     \* an_animation objects constructed in a run of Spec
MaxBodies  == 2     \* length of the list passed to an_animation(...)

Samples == 100      \* samples per arc: tmax/100 and linspace(..., 100)

\* theta, with np.sin(theta) and np.cos(theta)
ThetaSet == {"0", "atan(3/4)", "pi/2"}
sin(theta) == CASE theta = "0"         -> Q(0)
                [] theta = "atan(3/4)" -> Rat(3, 5)
                [] theta = "pi/2"      -> Q(1)
cos(theta) == CASE theta = "0"         -> Q(1)
                [] theta = "atan(3/4)" -> Rat(4, 5)
                [] theta = "pi/2"      -> Q(0)

Params(n, v0, theta, r, t0) ==
    [g |-> Q(2), n_rebounds |-> n, x0 |-> Q(1), y0 |-> Q(0),
     v0 |-> v0, theta |-> theta, r |-> r, t0 |-> t0]

\* The arguments of ball(...) in SpecGen.  With g = 2 and v0 = 5 the first
\* flight lasts T = 3 at theta = atan(3/4) and T = 5 at theta = pi/2, so
\* t0 is drawn below -T, at -T, between -T and 0, at 0 and above 0.  The
\* last two sets are the degenerate launches: r = 0, r = 1, v0 = 0,
\* theta = 0.
GenSet ==
    { Params(n, Q(5), theta, r, t0) :
          n \in 0..MaxBounces, theta \in {"atan(3/4)", "pi/2"},
          r \in {Rat(1, 2), Rat(1, 3)},
          t0 \in {Q(-6), Q(-5), Q(-3), Q(-1), Q(0), Q(3)} }
    \cup { Params(n, Q(5), "atan(3/4)", r, Q(0)) :
          n \in 0..MaxBounces, r \in {Q(0), Q(1)} }
    \cup { Params(2, v0, theta, Rat(1, 2), t0) :
          v0 \in {Q(0), Q(5)}, theta \in ThetaSet, t0 \in {Q(0), Q(3)} }

\* The arguments of ball(...) in Spec: trajectories of 100, 200 and
\* 100 * MaxBounces samples, and one of no samples (tmax < 0).
LaunchSet ==
    { Params(n, Q(5), "atan(3/4)", Rat(1, 2), Q(0)) : n \in {1, 2, MaxBounces} }
    \cup { Params(1, Q(5), "atan(3/4)", Rat(1, 2), Q(-4)) }

(***************************************************************************)
(* numpy                                                                   *)
(***************************************************************************)
\* np.arange(start, stop, step): ceil((stop - start)/step) values
\* start + j*step.  A zero step makes the length infinite (an error) or,
\* when stop = start, NaN: an error or an empty array, by numpy version.
arange(start, stop, step) ==
    IF step = Q(0)
    THEN IF stop = start
         THEN {[err |-> "ValueError", val |-> <<>>], [err |-> "none", val |-> <<>>]}
         ELSE {[err |-> "ValueError", val |-> <<>>]}
    ELSE LET n == Max(RCeil(RDiv(RSub(stop, start), step)), 0)
         IN  {[err |-> "none",
               val |-> [j \in 1..n |-> RAdd(start, RMul(Q(j - 1), step))]]}

\* np.linspace(start, stop, num): num values from start to stop inclusive
linspace(start, stop, num) ==
    LET step == RDiv(RSub(stop, start), Q(num - 1))
    IN  [j \in 1..num |-> IF j = num THEN stop
                          ELSE RAdd(start, RMul(Q(j - 1), step))]

\* np.concatenate((a, b))
concatenate(a, b) == a \o b

\* np.full((n), v); a negative n is an error, decided by the caller
full(n, v) == [j \in 1..n |-> v]

(***************************************************************************)
(* class ball                                                              *)
(***************************************************************************)
\* x and y of one arc: the expressions of lines 77-78 and 92-93
xArc(self, v) ==
    [j \in 1..Len(self.t) |->
        RAdd(RMul(RMul(v, cos(self.theta)), RSub(self.t[j], self.t0)), self.x0)]
\* -g/2 * dt ** 2 + v * sin(theta) * dt: the height after dt of flight
height(g, v, theta, dt) ==
    RAdd(RMul(RDiv(RNeg(g), Q(2)), RMul(dt, dt)), RMul(RMul(v, sin(theta)), dt))
yArc(self, v) ==
    [j \in 1..Len(self.t) |->
        RAdd(height(self.g, v, self.theta, RSub(self.t[j], self.t0)), self.y0)]

\* tmax of a flight launched at speed v at time t0
flightEnd(self, v, t0) ==
    RAdd(RDiv(RMul(RMul(Q(2), v), sin(self.theta)), self.g), t0)

\* One record of the history variable arcs: the speed, origin and time span
\* an arc was computed with, and the indices of its samples in x_tot.
ArcRec(self, v, lo) ==
    [vr |-> v, x0 |-> self.x0, t0 |-> self.t0, tmax |-> self.tmax,
     lo |-> lo, hi |-> lo + Len(self.t) - 1]

\* ball.__init__, lines 55-64; p are the arguments.  t is assigned at
\* line 66.  arcs and args are history: the arcs computed so far and the
\* arguments of the constructor.
ballFields(p) ==
    [g |-> p.g, n_rebounds |-> p.n_rebounds, x0 |-> p.x0, v0 |-> p.v0,
     theta |-> p.theta, y0 |-> p.y0, r |-> p.r, t0 |-> p.t0,
     tmax |-> RAdd(RDiv(RMul(RMul(Q(2), p.v0), sin(p.theta)), p.g), p.t0),
     t |-> <<>>, vr |-> p.v0,
     x_tot |-> <<>>, y_tot |-> <<>>, arcs |-> <<>>, args |-> p]

\* random_generation, lines 77-80
firstArc(self) ==
    [self EXCEPT !.x_tot = xArc(self, self.v0),
                 !.y_tot = yArc(self, self.v0),
                 !.vr    = self.v0,
                 !.arcs  = <<ArcRec(self, self.v0, 1)>>]

\* the loop's iteration with r * ii for r ** ii
bounce_times(self, ii) ==
    LET s1 == [self EXCEPT !.x0 = RAdd(RMul(RMul(self.vr, cos(self.theta)),
                                           RSub(self.tmax, self.t0)), self.x0)]
        s2 == [s1 EXCEPT !.vr = RMul(RMul(self.r, Q(ii)), self.v0)]
        s3 == [s2 EXCEPT !.t0 = self.tmax]
        s4 == [s3 EXCEPT !.tmax = flightEnd(s3, s3.vr, s3.t0)]
        s5 == [s4 EXCEPT !.t = linspace(s4.t0, s4.tmax, Samples)]
    IN  [s5 EXCEPT !.x_tot = concatenate(self.x_tot, xArc(s5, s5.vr)),
                   !.y_tot = concatenate(self.y_tot, yArc(s5, s5.vr)),
                   !.arcs  = Append(self.arcs,
                                    ArcRec(s5, s5.vr, Len(self.x_tot) + 1))]

\* random_generation, one iteration of the loop, lines 84-96
bounce(self, ii) ==
    LET s1 == [self EXCEPT !.x0 = RAdd(RMul(RMul(self.vr, cos(self.theta)),
                                           RSub(self.tmax, self.t0)), self.x0)]
        s2 == [s1 EXCEPT !.vr = RMul(RPow(self.r, ii), self.v0)]
        s3 == [s2 EXCEPT !.t0 = self.tmax]
        s4 == [s3 EXCEPT !.tmax = flightEnd(s3, s3.vr, s3.t0)]
        s5 == [s4 EXCEPT !.t = linspace(s4.t0, s4.tmax, Samples)]
    IN  [s5 EXCEPT !.x_tot = concatenate(self.x_tot, xArc(s5, s5.vr)),
                   !.y_tot = concatenate(self.y_tot, yArc(s5, s5.vr)),
                   !.arcs  = Append(self.arcs,
                                    ArcRec(s5, s5.vr, Len(self.x_tot) + 1))]

\* the loop: for ii in range(1, self.n_rebounds)
RECURSIVE bounces(_, _)
bounces(self, ii) ==
    IF ii >= self.n_rebounds THEN self ELSE bounces(bounce(self, ii), ii + 1)

random_generation(self) == bounces(firstArc(self), 1)

\* ball(g, n_rebounds, x0, y0, v0, theta, r, t0): the outcomes, each an
\* error raised by line 66 or the constructed object
ball(p) ==
    LET self == ballFields(p)
        dt   == RDiv(self.tmax, Q(Samples))
    IN  { IF a.err = "none"
          THEN [err |-> "none", obj |-> random_generation([self EXCEPT !.t = a.val])]
          ELSE [err |-> a.err, obj |-> self]
          : a \in arange(self.t0, self.tmax, dt) }

\* the constructor's outcomes, tabulated over the arguments of the model
BallTable == [p \in GenSet \cup LaunchSet |-> ball(p)]

(***************************************************************************)
(* class an_animation                                                      *)
(***************************************************************************)
\* The lists of ball objects an_animation is constructed with: indices
\* into balls, so that two lists may hold the same object.
BodyLists(n) == UNION {[1..k -> 1..n] : k \in 0..MaxBodies}

RECURSIVE maxFrom(_, _)
maxFrom(s, ii) ==
    IF ii = Len(s) THEN s[ii] ELSE Max(s[ii], maxFrom(s, ii + 1))
\* the length of the first ball for the greatest
max_first(s) == s[1]

\* one more than the greatest length
max_plus(s) == maxFrom(s, 1) + 1

\* max(list); the empty list is an error, decided by the caller
max(s) == maxFrom(s, 1)

\* reset_time with the padding of y_tot sized by len(x_tot) after x_tot was
\* padded (lines 154 and 155 exchanged)
RECURSIVE resetFrom_yAfter(_, _, _, _)
resetFrom_yAfter(heap, bs, max_len, ii) ==
    IF ii > Len(bs) THEN [balls |-> heap, err |-> "none"]
    ELSE LET b == heap[bs[ii]]
             n == max_len - Len(b.x_tot)
         IN  IF Len(b.x_tot) = 0 \/ Len(b.y_tot) = 0
             THEN [balls |-> heap, err |-> "IndexError"]
             ELSE IF n < 0
             THEN [balls |-> heap, err |-> "ValueError"]
             ELSE LET zero_arrayx == full(n, b.x_tot[Len(b.x_tot)])
                      x_tot       == concatenate(b.x_tot, zero_arrayx)
                      zero_arrayy == full(max_len - Len(x_tot), b.y_tot[Len(b.y_tot)])
                  IN  resetFrom_yAfter(
                        [heap EXCEPT ![bs[ii]].x_tot = x_tot,
                                     ![bs[ii]].y_tot = concatenate(@, zero_arrayy)],
                        bs, max_len, ii + 1)

\* reset_time, the iterations ii.. of the loop over the list bs, on the
\* objects heap: the objects afterwards and the error that ended the loop.
\* x_tot[-1] of an empty array is an IndexError, np.full of a negative
\* length a ValueError.
RECURSIVE resetFrom(_, _, _, _)
resetFrom(heap, bs, max_len, ii) ==
    IF ii > Len(bs) THEN [balls |-> heap, err |-> "none"]
    ELSE LET b == heap[bs[ii]]
             n == max_len - Len(b.x_tot)
         IN  IF Len(b.x_tot) = 0 \/ Len(b.y_tot) = 0
             THEN [balls |-> heap, err |-> "IndexError"]
             ELSE IF n < 0
             THEN [balls |-> heap, err |-> "ValueError"]
             ELSE LET zero_arrayx == full(n, b.x_tot[Len(b.x_tot)])
                      zero_arrayy == full(n, b.y_tot[Len(b.y_tot)])
                  IN  resetFrom(
                        [heap EXCEPT ![bs[ii]].x_tot = concatenate(@, zero_arrayx),
                                     ![bs[ii]].y_tot = concatenate(@, zero_arrayy)],
                        bs, max_len, ii + 1)

reset_time(heap, self) == resetFrom(heap, self.balls, self.max_len, 1)

\* animate(tot): the error of reading x_tot[tot], y_tot[tot] of every ball
animate(heap, self, tot) ==
    IF \A ii \in 1..Len(self.balls) :
          /\ tot < Len(heap[self.balls[ii]].x_tot)
          /\ tot < Len(heap[self.balls[ii]].y_tot)
    THEN "none" ELSE "IndexError"

(***************************************************************************)
(* The state: the ball objects and the an_animation objects constructed,   *)
(* in order of construction, and the an_animation whose window is open     *)
(* (0: none; plt.show() returns when the window is closed).  last is       *)
(* history: the last operation, its argument and the error it raised.      *)
(***************************************************************************)
VARIABLES balls, anims, playing, last
vars == <<balls, anims, playing, last>>

Done(op, arg, err) == [op |-> op, arg |-> arg, err |-> err]

Init ==
    /\ balls = <<>>
    /\ anims = <<>>
    /\ playing = 0
    /\ last = Done("init", <<>>, "none")

\* mylist.append(ball(...)), the arguments drawn from S, at most k times
NewBall(S, k) ==
    /\ playing = 0
    /\ Len(balls) < k
    /\ \E p \in S : \E o \in BallTable[p] :
          /\ balls' = IF o.err = "none" THEN Append(balls, o.obj) ELSE balls
          /\ last' = Done("ball", p, o.err)
    /\ UNCHANGED <<anims, playing>>

\* anim = an_animation(bs)
NewAnimation ==
    /\ playing = 0
    /\ Len(anims) < MaxAnims
    /\ \E bs \in BodyLists(Len(balls)) :
          IF bs = <<>>
          THEN /\ last' = Done("anim", bs, "ValueError")
               /\ UNCHANGED <<balls, anims>>
          ELSE LET self == [balls |-> bs,
                            max_len |-> max([ii \in 1..Len(bs) |->
                                               Len(balls[bs[ii]].x_tot)])]
                   res  == reset_time(balls, self)
               IN  /\ balls' = res.balls
                   /\ anims' = IF res.err = "none" THEN Append(anims, self)
                               ELSE anims
                   /\ last' = Done("anim", bs, res.err)
    /\ UNCHANGED playing

\* anim.reset_time() on an object constructed earlier
ResetTime ==
    /\ playing = 0
    /\ \E e \in 1..Len(anims) :
         LET res == reset_time(balls, anims[e])
         IN  /\ balls' = res.balls
             /\ last' = Done("reset", e, res.err)
    /\ UNCHANGED <<anims, playing>>

\* anim.launch_animation(the_interval) up to plt.show(): a line per ball
\* at its sample 0
LaunchAnimation ==
    /\ playing = 0
    /\ \E e \in 1..Len(anims) :
         LET err == animate(balls, anims[e], 0)
         IN  /\ playing' = IF err = "none" THEN e ELSE 0
             /\ last' = Done("launch", e, err)
    /\ UNCHANGED <<balls, anims>>

\* The frames the model plays of np.arange(0, max_len)
Frames(self) ==
    {0, self.max_len \div 2, self.max_len - 1} \cap (0..(self.max_len - 1))

\* one tick of FuncAnimation: animate(tot)
Tick ==
    /\ playing # 0
    /\ \E tot \in Frames(anims[playing]) :
         last' = Done("tick", <<playing, tot>>, animate(balls, anims[playing], tot))
    /\ UNCHANGED <<balls, anims, playing>>

\* the window is closed and plt.show() returns
Close ==
    /\ playing # 0
    /\ playing' = 0
    /\ last' = Done("close", playing, "none")
    /\ UNCHANGED <<balls, anims>>

Next ==
    \/ NewBall(LaunchSet, MaxBalls)
    \/ NewAnimation
    \/ ResetTime
    \/ LaunchAnimation
    \/ Tick
    \/ Close
Spec == Init /\ [][Next]_vars

\* Trajectory generation alone, over the wider set of arguments
NextGen == NewBall(GenSet, GenBalls)
SpecGen == Init /\ [][NextGen]_vars

(***************************************************************************)
(* Properties of trajectory generation, checked under SpecGen              *)
(***************************************************************************)
\* the valid launch parameters: g > 0, n_bounces >= 1, v0 > 0,
\* theta in (0, pi/2], r in [0, 1], t0 any real
Valid(p) ==
    /\ RLess(Q(0), p.g)
    /\ p.n_rebounds >= 1
    /\ RLess(Q(0), p.v0)
    /\ p.theta \in {"atan(3/4)", "pi/2"}
    /\ ~RLess(p.r, Q(0)) /\ ~RLess(Q(1), p.r)

\* the ball object the last operation constructed
NewestBall == balls[Len(balls)]

\* the samples random_generation computed (padding is appended after them)
Generated(b) == b.arcs[Len(b.arcs)].hi

\* C1: a ball constructed from valid launch parameters, t0 > 0 and t0 < 0
\* included, has x and y sequences of exactly 100 * n_bounces samples.
C1_Length ==
    (last.op = "ball" /\ last.err = "none" /\ Valid(last.arg)) =>
        /\ Len(NewestBall.x_tot) = Samples * last.arg.n_rebounds
        /\ Len(NewestBall.y_tot) = Samples * last.arg.n_rebounds

\* C2: position continuity at every bounce boundary, the one between the
\* first arc and the second included: the last sample of an arc is the
\* first sample of the next.
C2_Continuity ==
    \A i \in 1..Len(balls) :
       LET b == balls[i]
       IN  Valid(b.args) =>
             \A k \in 1..(Len(b.arcs) - 1) :
                b.arcs[k].lo <= b.arcs[k].hi =>
                   /\ b.x_tot[b.arcs[k].hi] = b.x_tot[b.arcs[k + 1].lo]
                   /\ b.y_tot[b.arcs[k].hi] = b.y_tot[b.arcs[k + 1].lo]

\* C5: trajectory generation has no error path: constructing a ball never
\* raises, whatever the numeric arguments (v0 = 0, theta = 0,
\* n_bounces = 0, t0 = 0, t0 = -T).
C5_NoError == last.op = "ball" => last.err = "none"

\* the apex of arc k: the height at the middle of its flight
Apex(b, k) ==
    height(b.g, b.arcs[k].vr, b.theta,
           RDiv(RSub(b.arcs[k].tmax, b.arcs[k].t0), Q(2)))
Duration(b, k) == RSub(b.arcs[k].tmax, b.arcs[k].t0)

\* C8: speed attenuation, for r in (0, 1): the speed of arc k (arcs[k + 1],
\* the first arc being arc 0) is r^k * v0, which is r times the speed of
\* arc k - 1; its duration is r^k times the first arc's and its apex
\* height (r^k)^2 times the first arc's.
C8_Attenuation ==
    \A i \in 1..Len(balls) :
       LET b == balls[i]
       IN  (RLess(Q(0), b.r) /\ RLess(b.r, Q(1))) =>
             /\ Len(b.arcs) = Max(b.n_rebounds, 1)
             /\ b.arcs[1].vr = b.v0
             /\ \A k \in 1..(b.n_rebounds - 1) :
                  LET rk == RPow(b.r, k)
                  IN  /\ b.arcs[k + 1].vr = RMul(rk, b.v0)
                      /\ b.arcs[k + 1].vr = RMul(b.r, b.arcs[k].vr)
                      /\ Duration(b, k + 1) = RMul(rk, Duration(b, 1))
                      /\ Apex(b, k + 1) = RMul(RMul(rk, rk), Apex(b, 1))

\* a ball of three arcs or more, launched upwards with r in (0, 1), whose
\* arcs shrink
C8_Witness ==
    \E i \in 1..Len(balls) :
       LET b == balls[i]
       IN  /\ Valid(b.args) /\ RLess(Q(0), b.r) /\ RLess(b.r, Q(1))
           /\ b.n_rebounds >= 3
           /\ RLess(Q(0), Apex(b, 3)) /\ RLess(Apex(b, 3), Apex(b, 2))

\* C10: after construction with n_bounces >= 2 the stored launch parameters
\* g, n_rebounds, x0, y0, v0, theta, r and t0 are the constructor's
\* arguments, and stay so.
C10_ParamsKept ==
    \A i \in 1..Len(balls) :
       LET b == balls[i]
       IN  b.args.n_rebounds >= 2 =>
             /\ b.g = b.args.g /\ b.n_rebounds = b.args.n_rebounds
             /\ b.x0 = b.args.x0 /\ b.y0 = b.args.y0
             /\ b.v0 = b.args.v0 /\ b.theta = b.args.theta
             /\ b.r = b.args.r /\ b.t0 = b.args.t0

(***************************************************************************)
(* Properties of synchronization and playback, checked under Spec          *)
(***************************************************************************)
\* the ball objects of an an_animation, by position in its list
Body(self, i) == balls[self.balls[i]]
Bodies(self) == 1..Len(self.balls)

\* C3: constructing an_animation from N >= 1 non-empty trajectories of
\* lengths L_1..L_N succeeds, stores max_len = max(L_1..L_N) and leaves
\* every body with x and y of that length: its samples 0..L_i-1 unchanged,
\* every appended sample equal to its final sample before padding.
C3_Synchronized ==
    [][ ( /\ last'.op = "anim"
          /\ last'.arg # <<>>
          /\ \A i \in 1..Len(last'.arg) : Len(balls[last'.arg[i]].x_tot) > 0 )
        =>
        LET bs   == last'.arg
            L(i) == Len(balls[bs[i]].x_tot)
            M    == CHOOSE m \in {L(i) : i \in 1..Len(bs)} :
                       \A i \in 1..Len(bs) : L(i) <= m
            self == anims'[Len(anims')]
        IN  /\ last'.err = "none"
            /\ Len(anims') = Len(anims) + 1
            /\ self.balls = bs
            /\ self.max_len = M
            /\ \A i \in 1..Len(bs) :
                 LET old == balls[bs[i]]
                     new == balls'[bs[i]]
                 IN  /\ Len(new.x_tot) = M /\ Len(new.y_tot) = M
                     /\ \A j \in 1..M :
                          /\ new.x_tot[j] = old.x_tot[IF j <= L(i) THEN j ELSE L(i)]
                          /\ new.y_tot[j] = old.y_tot[IF j <= L(i) THEN j ELSE L(i)]
      ]_vars

\* the first an_animation has just been constructed and one of its bodies
\* was shorter than another: samples were appended to it
C3_Witness ==
    /\ last.op = "anim" /\ last.err = "none" /\ Len(anims) = 1
    /\ \E i \in Bodies(anims[1]) :
          /\ Len(Body(anims[1], i).x_tot) > Generated(Body(anims[1], i))
          /\ Len(Body(anims[1], i).x_tot) = anims[1].max_len

\* every body of the an_animation has max_len samples
Synced(self) ==
    \A i \in Bodies(self) :
       /\ Len(Body(self, i).x_tot) = self.max_len
       /\ Len(Body(self, i).y_tot) = self.max_len

\* C4: synchronizing a synchronized set of bodies again, by reset_time or
\* by constructing another an_animation from the same list, appends
\* nothing: every x and y sequence and max_len stay as they are.
C4_Idempotent ==
    [][ /\ (last'.op = "reset" /\ Synced(anims[last'.arg])) =>
              /\ last'.err = "none"
              /\ balls' = balls
              /\ anims' = anims
        /\ \A e \in 1..Len(anims) :
              (last'.op = "anim" /\ last'.arg = anims[e].balls /\ Synced(anims[e])) =>
                 /\ last'.err = "none"
                 /\ balls' = balls
                 /\ Len(anims') = Len(anims) + 1
                 /\ anims'[Len(anims')].max_len = anims[e].max_len
      ]_vars

\* reset_time has run on an an_animation one of whose bodies was padded
C4_Witness ==
    /\ last.op = "reset" /\ last.err = "none"
    /\ Synced(anims[last.arg])
    /\ \E i \in Bodies(anims[last.arg]) :
          Len(Body(anims[last.arg], i).x_tot) > Generated(Body(anims[last.arg], i))

\* C6: synchronization has no failure outcome: constructing an_animation
\* never raises, for the empty list and for a body of no samples too.
C6_NoFailure == last.op = "anim" => last.err = "none"

\* C7: an ensemble is never mutated after padding: the trajectories of
\* every an_animation constructed keep the length max_len of that
\* an_animation, whatever is constructed or played later.
C7_NeverMutated == \A e \in 1..Len(anims) : Synced(anims[e])

\* C9: playback index safety: for every an_animation constructed, every
\* frame i in 0..max_len-1 and every body, x_tot[i] and y_tot[i] exist; a
\* body's x and y sequences have one length, at least max_len; no tick and
\* no launch reads out of bounds.
C9_IndexSafe ==
    /\ \A e \in 1..Len(anims) :
          /\ \A i \in Bodies(anims[e]) :
                /\ Len(Body(anims[e], i).x_tot) = Len(Body(anims[e], i).y_tot)
                /\ Len(Body(anims[e], i).x_tot) >= anims[e].max_len
          /\ \A tot \in 0..(anims[e].max_len - 1) :
                animate(balls, anims[e], tot) = "none"
    /\ last.op \in {"launch", "tick"} => last.err = "none"

\* the last frame of an an_animation is played after one of its bodies was
\* padded further, beyond max_len, by a later an_animation
C9_Witness ==
    /\ last.op = "tick" /\ playing # 0
    /\ last.arg = <<playing, anims[playing].max_len - 1>>
    /\ \E i \in Bodies(anims[playing]) :
          /\ Len(Body(anims[playing], i).x_tot) > anims[playing].max_len
          /\ Len(Body(anims[playing], i).x_tot) > Generated(Body(anims[playing], i))

====
